---- MODULE Spec2Model ----
(***************************************************************************)
(* The event-driven core of the basic HotStuff engine                       *)
(* (consensus/hotstuff/basic/core/handler.go): Start, Stop, the three       *)
(* subscriptions, the dispatch loop handleEvents and the handlers it calls. *)
(*                                                                         *)
(* Threads of the model:                                                   *)
(*   - the caller of Start/Stop (callerPc), whose calls alternate;          *)
(*   - one goroutine per `go c.handleEvents()` (loops[g]);                  *)
(*   - the round timer and the posters of events (the environment).        *)
(* A handler invocation spans from the receive of its event (recv) to the   *)
(* handler's return (handleEvent); its effect on the core is applied at    *)
(* its return.                                                             *)
(***************************************************************************)
EXTENDS Integers, Sequences, FiniteSets, TLC

VARIABLES
    callerPc,      \* position of the thread that calls Start and Stop
    gen,           \* number of Start calls made so far
    currentRound,  \* c.current.Round()
    currentPhase,  \* phase of the current round
    votes,         \* votes and new-views recorded for the current round
    backlog,       \* deferred (message, signer) pairs, in insertion order
    timer,         \* round whose timer is armed, NoTimer when none
    subGen,        \* per subscription field: the Start that last assigned it
    subOpen,       \* per subscription field: is that subscription open
    subQ,          \* per subscription field: events delivered, not yet received
    loops,         \* the handleEvents goroutines
    last           \* the handler invocation that returned in the step into this state

vars == <<callerPc, gen, currentRound, currentPhase, votes, backlog, timer,
          subGen, subOpen, subQ, loops, last>>

\* -------------------------------------------------------------------------
\* Bounds of the model
MaxStarts == 2     \* Start calls explored
MaxRound == 2      \* highest round explored
MaxQueue == 2      \* events outside posters may have outstanding on one source
MaxMsgs == 1       \* the same, where every payload is explored
MaxMsgRound == 1   \* highest round explored where every payload is explored
MaxBacklog == 1    \* capacity of the Backlog

NoTimer == 0 - 1

\* -------------------------------------------------------------------------
\* Subscriptions: c.events, c.timeoutSub, c.finalCommittedSub
Kinds == {"events", "timeoutSub", "finalCommittedSub"}

\* -------------------------------------------------------------------------
\* Errors (errors.go)
NoError == "nil"
errFutureMessage == "errFutureMessage"
errOldMessage == "errOldMessage"
errOldVote == "errOldVote"
errInvalidMessage == "errInvalidMessage"
errInvalidSigner == "errInvalidSigner"
errNotFromProposer == "errNotFromProposer"
errNotToProposer == "errNotToProposer"
errAddNewViews == "errAddNewViews"
errAddPrepareVote == "errAddPrepareVote"
errAddPreCommitVote == "errAddPreCommitVote"
errAddCommitVote == "errAddCommitVote"
errDecodePayload == "errDecodePayload"
errNoRequest == "errNoRequest"

\* -------------------------------------------------------------------------
\* Message codes, phases, validators
MsgTypeNewView == "MsgTypeNewView"
MsgTypePrepare == "MsgTypePrepare"
MsgTypePrepareVote == "MsgTypePrepareVote"
MsgTypePreCommit == "MsgTypePreCommit"
MsgTypePreCommitVote == "MsgTypePreCommitVote"
MsgTypeCommit == "MsgTypeCommit"
MsgTypeCommitVote == "MsgTypeCommitVote"
MsgTypeUnknown == "MsgTypeUnknown"

KnownCodes == {MsgTypeNewView, MsgTypePrepare, MsgTypePrepareVote, MsgTypePreCommit,
               MsgTypePreCommitVote, MsgTypeCommit, MsgTypeCommitVote}

VoteCodes == {MsgTypePrepareVote, MsgTypePreCommitVote, MsgTypeCommitVote}

Phases == <<"NewView", "Prepare", "PreCommit", "Commit", "Decide">>

PhaseIndex(p) == CHOOSE i \in 1..Len(Phases) : Phases[i] = p

Validators == {"v1", "v2", "v3", "v4"}
Outsider == "x"

\* quorum 2f+1 of n = 3f+1
Quorum == (2 * Cardinality(Validators)) \div 3 + 1

\* -------------------------------------------------------------------------
\* Wire payloads, messages and events

\* A payload is the byte string of a MessageEvent: `dec` tells whether it
\* decodes and its signature validates; the other fields are what it decodes to.
\* `chk` stands for the checks of a phase handler other than the view check
\* (proposer, digest, QC, extension, SafeNode).
Payload(dec, addr, code, round, chk) ==
    [dec |-> dec, Address |-> addr, Code |-> code, Round |-> round, chk |-> chk]

Message(addr, code, round, chk) ==
    [Address |-> addr, Code |-> code, Round |-> round, chk |-> chk]

NoPayload == Payload(FALSE, "", "", 0, FALSE)
NoMessage == Message("", "", 0, FALSE)
NoValidator == "nil"

Event(type, payload, msg, src, tround) ==
    [type |-> type, payload |-> payload, msg |-> msg, src |-> src, tround |-> tround]

\* a request carries a proposal; `valid` tells whether handleRequest accepts it
Request(valid) == Payload(valid, "", "", 0, valid)
RequestEvent(valid) == Event("RequestEvent", Request(valid), NoMessage, NoValidator, NoTimer)
MessageEvent(payload) == Event("MessageEvent", payload, NoMessage, NoValidator, NoTimer)
FinalCommittedEvent == Event("FinalCommittedEvent", NoPayload, NoMessage, NoValidator, NoTimer)
backlogEvent(msg, src) == Event("backlogEvent", NoPayload, msg, src, NoTimer)
\* tround: the round whose timer raised the event (not a field of timeoutEvent)
timeoutEvent(tround) == Event("timeoutEvent", NoPayload, NoMessage, NoValidator, tround)
NoEvent == Event("none", NoPayload, NoMessage, NoValidator, NoTimer)

\* the subscription each event type is delivered to (subscribeEvents)
KindOf(type) ==
    CASE type \in {"RequestEvent", "MessageEvent", "backlogEvent"} -> "events"
      [] type = "timeoutEvent" -> "timeoutSub"
      [] type = "FinalCommittedEvent" -> "finalCommittedSub"

\* -------------------------------------------------------------------------
\* Collaborators of the handlers

\* msg.FromPayload(payload, c.validateFn): decode and check the signature
FromPayload(payload) ==
    IF payload.dec
    THEN [err |-> NoError,
          msg |-> Message(payload.Address, payload.Code, payload.Round, payload.chk)]
    ELSE [err |-> errDecodePayload, msg |-> NoMessage]

\* the payload a message is sent as: what FromPayload decodes back to it
ToPayload(msg) == Payload(TRUE, msg.Address, msg.Code, msg.Round, msg.chk)

\* c.valSet.GetByAddress(addr): the validator, or nil
GetByAddress(addr) == IF addr \in Validators THEN addr ELSE NoValidator

\* index of the first entry of the lowest round
RECURSIVE OldestIndex(_, _, _)
OldestIndex(bl, i, best) ==
    IF i > Len(bl) THEN best
    ELSE OldestIndex(bl, i + 1, IF bl[i].msg.Round < bl[best].msg.Round THEN i ELSE best)

RemoveAt(s, i) == SubSeq(s, 1, i - 1) \o SubSeq(s, i + 1, Len(s))

\* c.storeBacklog(msg, src): when full, an entry of the oldest round is evicted first
storeBacklog(bl, msg, src) ==
    LET kept == IF Len(bl) >= MaxBacklog THEN RemoveAt(bl, OldestIndex(bl, 1, 1)) ELSE bl
    IN  Append(kept, [msg |-> msg, src |-> src])

\* Drain(round): the entries of that round, in insertion order
Drain(bl, round) == SelectSeq(bl, LAMBDA e : e.msg.Round = round)
Undrained(bl, round) == SelectSeq(bl, LAMBDA e : e.msg.Round # round)

\* the view check common to the phase handlers
checkView(msg, round, old) ==
    IF msg.Round > round THEN errFutureMessage
    ELSE IF msg.Round < round THEN old
    ELSE NoError

\* Aggregator: one vote per (kind, signer) in a round
AddVote(vs, code, src) == vs \cup {<<code, src>>}
VoteCount(vs, code) == Cardinality({v \in vs : v[1] = code})

\* the quorum certificate of the votes of one kind in the current round, kept
\* with the votes it certifies
QC(code) == <<"QC", code>>
Signers(vs, code) == {a \in Validators : <<code, a>> \in vs}

\* an aggregator that certifies one vote early
AggregateOneShort(vs, code, src) ==
    IF <<code, src>> \in vs THEN [result |-> "Error", votes |-> vs]
    ELSE IF VoteCount(AddVote(vs, code, src), code) >= Quorum - 1 /\ QC(code) \notin vs
         THEN [result |-> "QC", votes |-> AddVote(vs, code, src) \cup {QC(code)}]
    ELSE [result |-> "Pending", votes |-> AddVote(vs, code, src)]

\* an aggregator that counts a second vote of a signer
AggregateCountingAgain(vs, code, src) ==
    LET added == IF <<code, src>> \in vs THEN vs \cup {<<code, src, 2>>}
                 ELSE AddVote(vs, code, src)
    IN  IF VoteCount(added, code) >= Quorum /\ QC(code) \notin vs
        THEN [result |-> "QC", votes |-> added \cup {QC(code)}]
        ELSE [result |-> "Pending", votes |-> added]

\* Aggregator.AddVote -> (QC | Pending | Error): a second vote of a signer is
\* an error and a no-op; the QC is returned once, when the quorum is first reached
Aggregate(vs, code, src) ==
    IF <<code, src>> \in vs THEN [result |-> "Error", votes |-> vs]
    ELSE IF VoteCount(AddVote(vs, code, src), code) >= Quorum /\ QC(code) \notin vs
         THEN [result |-> "QC", votes |-> AddVote(vs, code, src) \cup {QC(code)}]
    ELSE [result |-> "Pending", votes |-> AddVote(vs, code, src)]

Outcome(err, phase, vs) == [err |-> err, phase |-> phase, votes |-> vs]

\* proposal-kind handlers: handlePrepare, handlePreCommit, handleCommit
handleProposal(msg, src, round, phase, vs, target) ==
    LET view == checkView(msg, round, errOldMessage)
    IN  IF view # NoError THEN Outcome(view, phase, vs)
        ELSE IF ~msg.chk THEN Outcome(errNotFromProposer, phase, vs)
        ELSE IF PhaseIndex(target) > PhaseIndex(phase) THEN Outcome(NoError, target, vs)
        ELSE Outcome(NoError, phase, vs)

\* handleNewView: new-view messages are collected by the proposer
handleNewView(msg, src, round, phase, vs) ==
    LET view == checkView(msg, round, errOldMessage)
    IN  IF view # NoError THEN Outcome(view, phase, vs)
        ELSE IF ~msg.chk THEN Outcome(errNotToProposer, phase, vs)
        ELSE IF <<msg.Code, src>> \in vs THEN Outcome(errAddNewViews, phase, vs)
        ELSE Outcome(NoError, phase, AddVote(vs, msg.Code, src))

\* vote-kind handlers: handlePrepareVote, handlePreCommitVote, handleCommitVote
handleVote(msg, src, round, phase, vs, addErr, next) ==
    LET view == checkView(msg, round, errOldVote)
        agg == Aggregate(vs, msg.Code, src)
    IN  IF view # NoError THEN Outcome(view, phase, vs)
        ELSE IF ~msg.chk THEN Outcome(errNotToProposer, phase, vs)
        ELSE IF agg.result = "Error" THEN Outcome(addErr, phase, vs)
        ELSE IF agg.result = "QC" /\ PhaseIndex(next) > PhaseIndex(phase)
             THEN Outcome(NoError, next, agg.votes)
        ELSE Outcome(NoError, phase, agg.votes)

handlePrepare(msg, src, round, phase, vs) == handleProposal(msg, src, round, phase, vs, "Prepare")
handlePreCommit(msg, src, round, phase, vs) == handleProposal(msg, src, round, phase, vs, "PreCommit")
handleCommit(msg, src, round, phase, vs) == handleProposal(msg, src, round, phase, vs, "Commit")
handlePrepareVote(msg, src, round, phase, vs) ==
    handleVote(msg, src, round, phase, vs, errAddPrepareVote, "PreCommit")
handlePreCommitVote(msg, src, round, phase, vs) ==
    handleVote(msg, src, round, phase, vs, errAddPreCommitVote, "Commit")
handleCommitVote(msg, src, round, phase, vs) ==
    handleVote(msg, src, round, phase, vs, errAddCommitVote, "Decide")

\* -------------------------------------------------------------------------
\* The handlers of handler.go.  Each returns what it returns to its caller
\* (err), the phase handler it invoked (handler) with that handler's result
\* (inner), and the core state it leaves.

Result(err, handler, inner, phase, vs, bl) ==
    [err |-> err, handler |-> handler, inner |-> inner,
     phase |-> phase, votes |-> vs, backlog |-> bl]

\* testBacklog that stores nothing
testBacklogNoStore(err, bl, msg, src) == [err |-> err, backlog |-> bl]

\* testBacklog that stores the message on every error
testBacklogAnyError(err, bl, msg, src) ==
    [err |-> err, backlog |-> IF err # NoError THEN storeBacklog(bl, msg, src) ELSE bl]

\* testBacklog := func(err error) error
testBacklog(err, bl, msg, src) ==
    [err |-> err,
     backlog |-> IF err = errFutureMessage THEN storeBacklog(bl, msg, src) ELSE bl]

\* return testBacklog(c.handleX(msg, src))
Dispatched(handler, out, bl, msg, src) ==
    LET t == testBacklog(out.err, bl, msg, src)
    IN  Result(t.err, handler, out.err, out.phase, out.votes, t.backlog)

\* handleCheckedMsg whose default case falls into the NewView case
handleCheckedMsgDefaultNewView(msg, src, round, phase, vs, bl) ==
    CASE msg.Code = MsgTypePrepare ->
           Dispatched("handlePrepare", handlePrepare(msg, src, round, phase, vs), bl, msg, src)
      [] msg.Code = MsgTypePrepareVote ->
           Dispatched("handlePrepareVote", handlePrepareVote(msg, src, round, phase, vs), bl, msg, src)
      [] msg.Code = MsgTypePreCommit ->
           Dispatched("handlePreCommit", handlePreCommit(msg, src, round, phase, vs), bl, msg, src)
      [] msg.Code = MsgTypePreCommitVote ->
           Dispatched("handlePreCommitVote", handlePreCommitVote(msg, src, round, phase, vs), bl, msg, src)
      [] msg.Code = MsgTypeCommit ->
           Dispatched("handleCommit", handleCommit(msg, src, round, phase, vs), bl, msg, src)
      [] msg.Code = MsgTypeCommitVote ->
           Dispatched("handleCommitVote", handleCommitVote(msg, src, round, phase, vs), bl, msg, src)
      [] OTHER ->
           Dispatched("handleNewView", handleNewView(msg, src, round, phase, vs), bl, msg, src)

\* handleCheckedMsg with the PreCommit and PreCommitVote cases exchanged
handleCheckedMsgSwapped(msg, src, round, phase, vs, bl) ==
    CASE msg.Code = MsgTypeNewView ->
           Dispatched("handleNewView", handleNewView(msg, src, round, phase, vs), bl, msg, src)
      [] msg.Code = MsgTypePrepare ->
           Dispatched("handlePrepare", handlePrepare(msg, src, round, phase, vs), bl, msg, src)
      [] msg.Code = MsgTypePrepareVote ->
           Dispatched("handlePrepareVote", handlePrepareVote(msg, src, round, phase, vs), bl, msg, src)
      [] msg.Code = MsgTypePreCommit ->
           Dispatched("handlePreCommitVote", handlePreCommitVote(msg, src, round, phase, vs), bl, msg, src)
      [] msg.Code = MsgTypePreCommitVote ->
           Dispatched("handlePreCommit", handlePreCommit(msg, src, round, phase, vs), bl, msg, src)
      [] msg.Code = MsgTypeCommit ->
           Dispatched("handleCommit", handleCommit(msg, src, round, phase, vs), bl, msg, src)
      [] msg.Code = MsgTypeCommitVote ->
           Dispatched("handleCommitVote", handleCommitVote(msg, src, round, phase, vs), bl, msg, src)
      [] OTHER -> Result(errInvalidMessage, "none", NoError, phase, vs, bl)

\* func (c *core) handleCheckedMsg(msg *message, src hotstuff.Validator) error
handleCheckedMsg(msg, src, round, phase, vs, bl) ==
    CASE msg.Code = MsgTypeNewView ->
           Dispatched("handleNewView", handleNewView(msg, src, round, phase, vs), bl, msg, src)
      [] msg.Code = MsgTypePrepare ->
           Dispatched("handlePrepare", handlePrepare(msg, src, round, phase, vs), bl, msg, src)
      [] msg.Code = MsgTypePrepareVote ->
           Dispatched("handlePrepareVote", handlePrepareVote(msg, src, round, phase, vs), bl, msg, src)
      [] msg.Code = MsgTypePreCommit ->
           Dispatched("handlePreCommit", handlePreCommit(msg, src, round, phase, vs), bl, msg, src)
      [] msg.Code = MsgTypePreCommitVote ->
           Dispatched("handlePreCommitVote", handlePreCommitVote(msg, src, round, phase, vs), bl, msg, src)
      [] msg.Code = MsgTypeCommit ->
           Dispatched("handleCommit", handleCommit(msg, src, round, phase, vs), bl, msg, src)
      [] msg.Code = MsgTypeCommitVote ->
           Dispatched("handleCommitVote", handleCommitVote(msg, src, round, phase, vs), bl, msg, src)
      [] OTHER -> Result(errInvalidMessage, "none", NoError, phase, vs, bl)

\* handleMsg without the check of the signer
handleMsgAnySigner(payload, round, phase, vs, bl) ==
    LET d == FromPayload(payload)
    IN  IF d.err # NoError THEN Result(d.err, "none", NoError, phase, vs, bl)
        ELSE handleCheckedMsg(d.msg, GetByAddress(d.msg.Address), round, phase, vs, bl)

\* handleMsg that looks the signer up before it tests the decoding error
handleMsgSignerFirst(payload, round, phase, vs, bl) ==
    LET d == FromPayload(payload)
        src == GetByAddress(payload.Address)
    IN  IF src = NoValidator THEN Result(errInvalidSigner, "none", NoError, phase, vs, bl)
        ELSE IF d.err # NoError THEN Result(d.err, "none", NoError, phase, vs, bl)
        ELSE handleCheckedMsg(d.msg, src, round, phase, vs, bl)

\* func (c *core) handleMsg(payload []byte) error
handleMsg(payload, round, phase, vs, bl) ==
    LET d == FromPayload(payload)
        src == GetByAddress(d.msg.Address)
    IN  IF d.err # NoError THEN Result(d.err, "none", NoError, phase, vs, bl)
        ELSE IF src = NoValidator THEN Result(errInvalidSigner, "none", NoError, phase, vs, bl)
        ELSE handleCheckedMsg(d.msg, src, round, phase, vs, bl)

\* c.handleRequest(&hotstuff.Request{Proposal: ev.Proposal})
handleRequest(request, round, phase, vs, bl) ==
    Result(IF request.chk THEN NoError ELSE errNoRequest, "none", NoError, phase, vs, bl)

\* c.startNewRound(round): enter `round` at NewView with fresh phase state,
\* replace the timer, and post the backlog entries of the round for replay
startNewRound(round, bl) ==
    [round |-> round, phase |-> "NewView", votes |-> {}, timer |-> round,
     backlog |-> Undrained(bl, round),
     posts |-> [i \in 1..Len(Drain(bl, round)) |->
                   backlogEvent(Drain(bl, round)[i].msg, Drain(bl, round)[i].src)]]

\* handleTimeoutMsg that restarts the round it is in
handleTimeoutMsgSameRound(round, bl) == startNewRound(round, bl)

\* func (c *core) handleTimeoutMsg()
handleTimeoutMsg(round, bl) == startNewRound(round + 1, bl)

\* c.handleFinalCommitted()
handleFinalCommitted(round, bl) == startNewRound(round + 1, bl)

\* c.stopTimer()
stopTimer == NoTimer

\* c.backend.EventMux().Post(ev) of a sequence of events of one subscription
Post(q, open, kind, evs) == IF open[kind] THEN [q EXCEPT ![kind] = @ \o evs] ELSE q

\* -------------------------------------------------------------------------
\* State machine

LoopIds == 1..MaxStarts

Idle == <<"idle", "">>
Running == <<"running", "">>
Spawning == <<"go handleEvents", "">>
Subscribing(k) == <<"subscribeEvents", k>>
Unsubscribing(k) == <<"unsubscribeEvents", k>>

\* the order of the statements of subscribeEvents and of unsubscribeEvents
FirstKind == "events"
AfterKind(k, done) ==
    CASE k = "events" -> <<"timeoutSub">>
      [] k = "timeoutSub" -> <<"finalCommittedSub">>
      [] k = "finalCommittedSub" -> done

NoLast == [op |-> "none", handler |-> "none", err |-> NoError, inner |-> NoError,
           fromPhase |-> "NewView"]

\* payloads the network delivers
LifecyclePayloads ==
    {Payload(FALSE, "v1", MsgTypePrepare, 0, TRUE),
     Payload(TRUE, "v1", MsgTypePrepare, 0, TRUE),
     Payload(TRUE, "v1", MsgTypePrepareVote, 1, TRUE)}
PhasePayloads ==
    {Payload(TRUE, "v1", c, r, TRUE) :
        c \in {MsgTypePrepare, MsgTypePreCommit, MsgTypeCommit}, r \in 0..MaxMsgRound}
    \cup {Payload(TRUE, a, MsgTypeCommitVote, r, TRUE) : a \in Validators, r \in 0..MaxMsgRound}
VotePayloads ==
    {Payload(TRUE, a, MsgTypePrepareVote, 0, k) : a \in Validators, k \in BOOLEAN}
    \cup {Payload(TRUE, a, MsgTypePreCommitVote, 0, TRUE) : a \in Validators \ {"v4"}}
    \cup {Payload(TRUE, Outsider, MsgTypePrepareVote, 0, TRUE),
          Payload(TRUE, "v1", MsgTypePrepareVote, 1, TRUE)}
FaultyPayloads ==
    {Payload(FALSE, "v1", MsgTypePrepare, 0, TRUE),
     Payload(TRUE, Outsider, MsgTypePrepare, 0, TRUE),
     Payload(TRUE, "v1", MsgTypeUnknown, 0, TRUE),
     Payload(TRUE, "v1", MsgTypePrepare, 0, TRUE),
     Payload(TRUE, "v1", MsgTypePrepare, 1, FALSE)}
Payloads ==
    {Payload(FALSE, a, MsgTypePrepare, 0, TRUE) : a \in {"v1", Outsider}}
    \cup {Payload(TRUE, "v1", c, r, k) : c \in KnownCodes, r \in 0..MaxMsgRound, k \in BOOLEAN}
    \cup {Payload(TRUE, "v1", c, MaxMsgRound + 1, TRUE) : c \in {MsgTypePrepare, MsgTypePrepareVote}}
    \cup {Payload(TRUE, "v1", MsgTypeUnknown, r, TRUE) : r \in 0..MaxMsgRound}
    \cup {Payload(TRUE, Outsider, c, r, TRUE) :
            c \in {MsgTypePrepare, MsgTypePrepareVote, MsgTypeUnknown}, r \in 0..MaxMsgRound}

Init ==
    /\ callerPc = Idle
    /\ gen = 0
    /\ currentRound = 0
    /\ currentPhase = "NewView"
    /\ votes = {}
    /\ backlog = <<>>
    /\ timer = NoTimer
    /\ subGen = [k \in Kinds |-> 0]
    /\ subOpen = [k \in Kinds |-> FALSE]
    /\ subQ = [k \in Kinds |-> <<>>]
    /\ loops = [g \in LoopIds |-> [pc |-> "none", ev |-> NoEvent, refs |-> [k \in Kinds |-> 0]]]
    /\ last = NoLast

\* round-advancing events delivered or being handled; bounds the rounds explored
Pending ==
    Len(subQ["timeoutSub"]) + Len(subQ["finalCommittedSub"])
    + Cardinality({g \in LoopIds : /\ loops[g].pc = "handling"
                                   /\ loops[g].ev.type \in {"timeoutEvent", "FinalCommittedEvent"}})
CanAdvance(maxRound) == currentRound + Pending < maxRound

\* func (c *core) Start() error, first statement: c.startNewRound(common.Big0)
Start ==
    /\ callerPc = Idle
    /\ gen < MaxStarts
    /\ LET n == startNewRound(0, backlog)
       IN  /\ currentRound' = n.round
           /\ currentPhase' = n.phase
           /\ votes' = n.votes
           /\ backlog' = n.backlog
           /\ timer' = n.timer
           /\ subQ' = Post(subQ, subOpen, "events", n.posts)
    /\ gen' = gen + 1
    /\ callerPc' = Subscribing(FirstKind)
    /\ UNCHANGED <<subGen, subOpen, loops>>
    /\ last' = NoLast

\* func (c *core) subscribeEvents(), one Subscribe at a time
subscribeEvents ==
    \E k \in Kinds :
        /\ callerPc = Subscribing(k)
        /\ subGen' = [subGen EXCEPT ![k] = gen]
        /\ subOpen' = [subOpen EXCEPT ![k] = TRUE]
        /\ subQ' = [subQ EXCEPT ![k] = <<>>]
        /\ callerPc' = IF k = "finalCommittedSub" THEN Spawning
                       ELSE Subscribing(AfterKind(k, <<"">>)[1])
        /\ UNCHANGED <<gen, currentRound, currentPhase, votes, backlog, timer, loops>>
        /\ last' = NoLast

\* go c.handleEvents(), then Start returns
goHandleEvents ==
    /\ callerPc = Spawning
    /\ loops' = [loops EXCEPT ![gen] = [pc |-> "top", ev |-> NoEvent, refs |-> [k \in Kinds |-> 0]]]
    /\ callerPc' = Running
    /\ UNCHANGED <<gen, currentRound, currentPhase, votes, backlog, timer,
                   subGen, subOpen, subQ>>
    /\ last' = NoLast

\* func (c *core) Stop() error, first statement: c.stopTimer()
Stop ==
    /\ callerPc = Running
    /\ timer' = stopTimer
    /\ callerPc' = Unsubscribing(FirstKind)
    /\ UNCHANGED <<gen, currentRound, currentPhase, votes, backlog,
                   subGen, subOpen, subQ, loops>>
    /\ last' = NoLast

\* Subscription.Unsubscribe(): the channel is closed, undelivered events are dropped
Unsubscribe(open, q, k) ==
    [open |-> [open EXCEPT ![k] = FALSE], q |-> [q EXCEPT ![k] = <<>>]]

\* func (c *core) unsubscribeEvents(), one Unsubscribe at a time; then Stop returns
unsubscribeEvents ==
    \E k \in Kinds :
        /\ callerPc = Unsubscribing(k)
        /\ subOpen' = Unsubscribe(subOpen, subQ, k).open
        /\ subQ' = Unsubscribe(subOpen, subQ, k).q
        /\ callerPc' = IF k = "finalCommittedSub" THEN Idle
                       ELSE Unsubscribing(AfterKind(k, <<"">>)[1])
        /\ UNCHANGED <<gen, currentRound, currentPhase, votes, backlog, timer, subGen, loops>>
        /\ last' = NoLast

\* -------------------------------------------------------------------------
\* func (c *core) handleEvents(): the dispatch loop of goroutine g

\* the channels of a select are those of the subscriptions the fields held
\* when the select was entered
ChanClosed(l, k) == l.refs[k] < subGen[k] \/ ~subOpen[k]
ChanReady(l, k) == l.refs[k] = subGen[k] /\ subOpen[k] /\ subQ[k] # <<>>

\* what a receive from a closed channel yields besides ok = false
ZeroEvent(k) ==
    CASE k = "events" -> NoEvent
      [] k = "timeoutSub" -> timeoutEvent(NoTimer)
      [] k = "finalCommittedSub" -> FinalCommittedEvent

\* a receive that does not test ok: the handler is called on the zero event
ReceivedIgnoringOk(l, ok, ev) == [l EXCEPT !.pc = "handling", !.ev = ev]

\* case event, ok := <-ch: if !ok { return }; otherwise the handler is called
Received(l, ok, ev) ==
    IF ~ok THEN [l EXCEPT !.pc = "exited", !.ev = NoEvent]
    ELSE [l EXCEPT !.pc = "handling", !.ev = ev]

\* a receive that takes the event delivered last
ReceiveNewest(q) == [ev |-> q[Len(q)], rest |-> SubSeq(q, 1, Len(q) - 1)]

\* <-ch on a channel that holds events: the event delivered first, and what stays
Receive(q) == [ev |-> Head(q), rest |-> Tail(q)]

\* top of the for loop: the select evaluates c.events.Chan(), c.timeoutSub.Chan()
\* and c.finalCommittedSub.Chan()
selectEnter ==
    \E g \in LoopIds :
        /\ loops[g].pc = "top"
        /\ loops' = [loops EXCEPT ![g].pc = "select", ![g].refs = subGen]
        /\ UNCHANGED <<callerPc, gen, currentRound, currentPhase, votes, backlog, timer,
                       subGen, subOpen, subQ>>
        /\ last' = NoLast

\* a case of the select receives an event: the handler invocation begins
recv ==
    \E g \in LoopIds, k \in Kinds :
        /\ loops[g].pc = "select"
        /\ ChanReady(loops[g], k)
        /\ loops' = [loops EXCEPT ![g] = Received(loops[g], TRUE, Receive(subQ[k]).ev)]
        /\ subQ' = [subQ EXCEPT ![k] = Receive(subQ[k]).rest]
        /\ UNCHANGED <<callerPc, gen, currentRound, currentPhase, votes, backlog, timer,
                       subGen, subOpen>>
        /\ last' = NoLast

\* a case of the select finds its channel closed
recvClosed ==
    \E g \in LoopIds, k \in Kinds :
        /\ loops[g].pc = "select"
        /\ ChanClosed(loops[g], k)
        /\ loops' = [loops EXCEPT ![g] = Received(loops[g], FALSE, ZeroEvent(k))]
        /\ UNCHANGED <<callerPc, gen, currentRound, currentPhase, votes, backlog, timer,
                       subGen, subOpen, subQ>>
        /\ last' = NoLast

\* the core state a handler leaves, from a message handler's result
FromResult(op, r) ==
    [round |-> currentRound, phase |-> r.phase, votes |-> r.votes, backlog |-> r.backlog,
     timer |-> timer, posts |-> <<>>,
     last |-> [op |-> op, handler |-> r.handler, err |-> r.err, inner |-> r.inner,
               fromPhase |-> currentPhase]]

\* the core state a handler leaves, from startNewRound's result
FromRound(op, n) ==
    [round |-> n.round, phase |-> n.phase, votes |-> n.votes, backlog |-> n.backlog,
     timer |-> n.timer, posts |-> n.posts,
     last |-> [op |-> op, handler |-> "none", err |-> NoError, inner |-> NoError,
               fromPhase |-> currentPhase]]

Untouched ==
    [round |-> currentRound, phase |-> currentPhase, votes |-> votes, backlog |-> backlog,
     timer |-> timer, posts |-> <<>>, last |-> NoLast]

\* a replay that decodes the event's payload again
ReplayedDecoded(ev) == handleMsg(ev.payload, currentRound, currentPhase, votes, backlog)

\* a replay that drops the signer
ReplayedNoSigner(ev) ==
    handleCheckedMsg(ev.msg, NoValidator, currentRound, currentPhase, votes, backlog)

\* case backlogEvent: _ = c.handleCheckedMsg(ev.msg, ev.src)
Replayed(ev) == handleCheckedMsg(ev.msg, ev.src, currentRound, currentPhase, votes, backlog)

\* the body of the select case that received ev
Handled(ev) ==
    CASE ev.type = "RequestEvent" ->
           FromResult("handleRequest",
                      handleRequest(ev.payload, currentRound, currentPhase, votes, backlog))
      [] ev.type = "MessageEvent" ->
           FromResult("handleMsg",
                      handleMsg(ev.payload, currentRound, currentPhase, votes, backlog))
      [] ev.type = "backlogEvent" ->
           FromResult("handleCheckedMsg", Replayed(ev))
      [] ev.type = "timeoutEvent" ->
           FromRound("handleTimeoutMsg", handleTimeoutMsg(currentRound, backlog))
      [] ev.type = "FinalCommittedEvent" ->
           FromRound("handleFinalCommitted", handleFinalCommitted(currentRound, backlog))
      [] OTHER -> Untouched

\* a loop that returns when a handler returns an error
ResumedUnlessError(l, err) ==
    IF err # NoError THEN [l EXCEPT !.pc = "exited", !.ev = NoEvent]
    ELSE [l EXCEPT !.pc = "top", !.ev = NoEvent]

\* `_ = c.handleX(...)`: the result is discarded and the for loop iterates
Resumed(l, err) == [l EXCEPT !.pc = "top", !.ev = NoEvent]

\* the handler returns; the loop discards its result and selects again
handleEvent ==
    \E g \in LoopIds :
        /\ loops[g].pc = "handling"
        /\ LET h == Handled(loops[g].ev)
           IN  /\ currentRound' = h.round
               /\ currentPhase' = h.phase
               /\ votes' = h.votes
               /\ backlog' = h.backlog
               /\ timer' = h.timer
               /\ subQ' = Post(subQ, subOpen, "events", h.posts)
               /\ last' = h.last
        /\ loops' = [loops EXCEPT ![g] = Resumed(loops[g], Handled(loops[g].ev).last.err)]
        /\ UNCHANGED <<callerPc, gen, subGen, subOpen>>

\* -------------------------------------------------------------------------
\* The environment: posters of events and the round timer

\* events of subscription k that outside posters have outstanding: delivered and
\* not yet received, or being handled
Outstanding(k) ==
    Len(subQ[k])
    + Cardinality({g \in LoopIds : /\ loops[g].pc = "handling"
                                   /\ loops[g].refs[k] = subGen[k]
                                   /\ loops[g].ev.type # "none"
                                   /\ KindOf(loops[g].ev.type) = k})

CanPost(k, cap) == subOpen[k] /\ Outstanding(k) < cap

PostRequestEvent(valids, cap) ==
    \E valid \in valids :
        /\ CanPost("events", cap)
        /\ subQ' = Post(subQ, subOpen, "events", <<RequestEvent(valid)>>)
        /\ UNCHANGED <<callerPc, gen, currentRound, currentPhase, votes, backlog, timer,
                       subGen, subOpen, loops>>
        /\ last' = NoLast

PostMessageEvent(payloads, cap) ==
    \E p \in payloads :
        /\ CanPost("events", cap)
        /\ subQ' = Post(subQ, subOpen, "events", <<MessageEvent(p)>>)
        /\ UNCHANGED <<callerPc, gen, currentRound, currentPhase, votes, backlog, timer,
                       subGen, subOpen, loops>>
        /\ last' = NoLast

PostFinalCommittedEvent(cap, maxRound) ==
    /\ CanPost("finalCommittedSub", cap)
    /\ CanAdvance(maxRound)
    /\ subQ' = Post(subQ, subOpen, "finalCommittedSub", <<FinalCommittedEvent>>)
    /\ UNCHANGED <<callerPc, gen, currentRound, currentPhase, votes, backlog, timer,
                   subGen, subOpen, loops>>
    /\ last' = NoLast

\* the round timer expires: c.sendEvent(timeoutEvent{})
timerExpire(maxRound) ==
    /\ timer # NoTimer
    /\ CanAdvance(maxRound)
    /\ subQ' = Post(subQ, subOpen, "timeoutSub", <<timeoutEvent(timer)>>)
    /\ timer' = NoTimer
    /\ UNCHANGED <<callerPc, gen, currentRound, currentPhase, votes, backlog,
                   subGen, subOpen, loops>>
    /\ last' = NoLast

\* The life cycle of the core: restarts, concurrent callers, few payloads
Next ==
    \/ Start
    \/ subscribeEvents
    \/ goHandleEvents
    \/ Stop
    \/ unsubscribeEvents
    \/ selectEnter
    \/ recv
    \/ recvClosed
    \/ handleEvent
    \/ PostRequestEvent({TRUE}, MaxQueue)
    \/ PostMessageEvent(LifecyclePayloads, MaxQueue)
    \/ PostFinalCommittedEvent(MaxQueue, MaxRound)
    \/ timerExpire(MaxRound)

Spec == Init /\ [][Next]_vars

\* The handling of messages: a started core, every payload, rounds advanced by timeouts
FirstStart == gen = 0 /\ Start

NextMsg ==
    \/ FirstStart
    \/ subscribeEvents
    \/ goHandleEvents
    \/ selectEnter
    \/ recv
    \/ handleEvent
    \/ PostRequestEvent({TRUE}, MaxMsgs)
    \/ PostMessageEvent(Payloads, MaxMsgs)
    \/ timerExpire(MaxMsgRound)

SpecMsg == Init /\ [][NextMsg]_vars

\* The phases of a round: a started core, the messages that move it through the
\* five phases, rounds advanced by timeouts and final commits
NextPhase ==
    \/ FirstStart
    \/ subscribeEvents
    \/ goHandleEvents
    \/ selectEnter
    \/ recv
    \/ handleEvent
    \/ PostMessageEvent(PhasePayloads, MaxMsgs)
    \/ PostFinalCommittedEvent(MaxMsgs, MaxMsgRound)
    \/ timerExpire(MaxMsgRound)

SpecPhase == Init /\ [][NextPhase]_vars

\* the scheduler runs every goroutine of the dispatch loop that can take a step
\* and every handler returns; a select chooses at random among its ready cases,
\* so a case that is ready again and again is taken
FairLoop ==
    \A g \in LoopIds :
        /\ WF_vars((selectEnter \/ recvClosed \/ handleEvent) /\ loops'[g] # loops[g])
        /\ \A k \in Kinds : SF_vars(recv /\ loops'[g] # loops[g] /\ subQ'[k] # subQ[k])

\* a call of Start runs to its return
FairStart == WF_vars(subscribeEvents \/ goHandleEvents)

\* a call of Stop runs to its return
FairStop == WF_vars(unsubscribeEvents)

\* The life cycle of the core under a fair scheduler
SpecFair == Spec /\ FairLoop /\ FairStart /\ FairStop

\* The loop under faulty input: a started core, valid and invalid requests,
\* payloads that are rejected at every stage, a fair scheduler
NextFaulty ==
    \/ FirstStart
    \/ subscribeEvents
    \/ goHandleEvents
    \/ selectEnter
    \/ recv
    \/ handleEvent
    \/ PostRequestEvent(BOOLEAN, MaxQueue)
    \/ PostMessageEvent(FaultyPayloads, MaxQueue)
    \/ timerExpire(MaxMsgRound)

SpecFaulty == Init /\ [][NextFaulty]_vars /\ FairLoop /\ FairStart

\* The aggregation of votes: a started core that receives the votes of a round
\* from every validator, valid and invalid, once and again
NextVotes ==
    \/ FirstStart
    \/ subscribeEvents
    \/ goHandleEvents
    \/ selectEnter
    \/ recv
    \/ handleEvent
    \/ PostMessageEvent(VotePayloads, MaxMsgs)
    \/ timerExpire(MaxMsgRound)

SpecVotes == Init /\ [][NextVotes]_vars

\* -------------------------------------------------------------------------
\* Vocabulary of the properties

\* goroutine g's handler returns in this step
Returns(g) == loops[g].pc = "handling" /\ loops'[g].pc = "top"

\* goroutine g begins a handler invocation in this step
Begins(g) == loops[g].pc # "handling" /\ loops'[g].pc = "handling"

InHandler(g) == loops[g].pc = "handling"

\* goroutine g's handler invocation ends in this step
Ends(g) == loops[g].pc = "handling" /\ loops'[g].pc # "handling"

\* the event goroutine g is handling is a message that reaches handleCheckedMsg
Checked(g) ==
    \/ loops[g].ev.type = "backlogEvent"
    \/ /\ loops[g].ev.type = "MessageEvent"
       /\ loops[g].ev.payload.dec
       /\ loops[g].ev.payload.Address \in Validators

\* that message and its signer
CheckedMsg(g) ==
    IF loops[g].ev.type = "backlogEvent" THEN loops[g].ev.msg
    ELSE Message(loops[g].ev.payload.Address, loops[g].ev.payload.Code,
                 loops[g].ev.payload.Round, loops[g].ev.payload.chk)
CheckedSrc(g) ==
    IF loops[g].ev.type = "backlogEvent" THEN loops[g].ev.src ELSE loops[g].ev.payload.Address

InBacklog(bl, msg, src) == \E i \in 1..Len(bl) : bl[i] = [msg |-> msg, src |-> src]

\* Stop has been called and has not returned
InStop == callerPc[1] = "unsubscribeEvents"

\* Stop has returned and Start has not been called again
Stopped == callerPc = Idle /\ gen > 0

\* -------------------------------------------------------------------------
\* C1: across any sequence of events handled by the core, Start included,
\* currentRound never decreases.
C1_RoundNeverDecreases == [][currentRound' >= currentRound]_vars

\* -------------------------------------------------------------------------
\* C2: handling a TimeoutEvent is unconditional: from any phase of round R,
\* after handleTimeoutMsg completes the core is in round R+1 at phase NewView,
\* with the phase state of round R cancelled (no votes, a fresh timer).
C2_TimeoutAdvances ==
    [][\A g \in LoopIds :
         (Returns(g) /\ loops[g].ev.type = "timeoutEvent")
         => /\ currentRound' = currentRound + 1
            /\ currentPhase' = "NewView"
            /\ votes' = {}
            /\ timer' = currentRound + 1]_vars

\* a timeout has been handled in phase Decide, with votes recorded
C2_Witness ==
    /\ last.op = "handleTimeoutMsg"
    /\ last.fromPhase = "Decide"
    /\ currentPhase = "NewView"
    /\ currentRound > 0
    /\ votes = {}

\* -------------------------------------------------------------------------
\* C3 as claimed: when a phase handler classifies a message as FutureMessage,
\* handleCheckedMsg stores the (message, signer) pair in the Backlog and
\* returns no error to its caller.
C3_FutureNoError ==
    [][\A g \in LoopIds :
         (Returns(g) /\ Checked(g) /\ last'.inner = errFutureMessage)
         => /\ InBacklog(backlog', CheckedMsg(g), CheckedSrc(g))
            /\ last'.err = NoError]_vars

\* C3 as amended: when a phase handler classifies a message as FutureMessage,
\* handleCheckedMsg stores the (message, signer) pair in the Backlog and
\* returns errFutureMessage to its caller; the dispatch loop discards the
\* returned error and selects again.
C3_FutureDeferred ==
    [][\A g \in LoopIds :
         (Returns(g) /\ Checked(g) /\ last'.inner = errFutureMessage)
         => /\ InBacklog(backlog', CheckedMsg(g), CheckedSrc(g))
            /\ last'.err = errFutureMessage
            /\ loops'[g].pc = "top"]_vars

\* a message of a round ahead has been deferred
C3_Witness ==
    /\ last.op = "handleMsg"
    /\ last.inner = errFutureMessage
    /\ last.err = errFutureMessage
    /\ Len(backlog) > 0
    /\ backlog[Len(backlog)].msg.Round > currentRound

\* -------------------------------------------------------------------------
\* C4: a message is stored in the Backlog if and only if its handler result is
\* FutureMessage: a message that is accepted, or rejected for any other
\* reason, leaves the Backlog unchanged.
C4_BacklogIffFuture ==
    [][\A g \in LoopIds :
         (Returns(g) /\ loops[g].ev.type \in {"MessageEvent", "backlogEvent"})
         => IF last'.inner = errFutureMessage
            THEN Checked(g) /\ InBacklog(backlog', CheckedMsg(g), CheckedSrc(g))
            ELSE backlog' = backlog]_vars

\* an old message has been rejected while a message is deferred
C4_Witness ==
    /\ last.op = "handleMsg"
    /\ last.inner \in {errOldMessage, errOldVote}
    /\ Len(backlog) > 0

\* -------------------------------------------------------------------------
\* C5: a decoded message whose signer address is not in the ValidatorSet is
\* rejected by handleMsg with InvalidSigner: no phase handler is invoked,
\* nothing is added to the Backlog, round and phase are unchanged.
C5_InvalidSigner ==
    [][\A g \in LoopIds :
         (/\ Returns(g)
          /\ loops[g].ev.type = "MessageEvent"
          /\ loops[g].ev.payload.dec
          /\ loops[g].ev.payload.Address \notin Validators)
         => /\ last'.err = errInvalidSigner
            /\ last'.handler = "none"
            /\ backlog' = backlog
            /\ currentRound' = currentRound
            /\ currentPhase' = currentPhase
            /\ votes' = votes]_vars

\* a message of an unknown signer has been rejected
C5_Witness ==
    /\ last.op = "handleMsg"
    /\ last.err = errInvalidSigner
    /\ last.handler = "none"

\* -------------------------------------------------------------------------
\* C6: a checked message whose Code is none of the seven known codes is
\* rejected with InvalidMessage: no phase handler is invoked and the message
\* is not placed in the Backlog.
C6_UnknownCode ==
    [][\A g \in LoopIds :
         (Returns(g) /\ Checked(g) /\ CheckedMsg(g).Code \notin KnownCodes)
         => /\ last'.err = errInvalidMessage
            /\ last'.handler = "none"
            /\ backlog' = backlog
            /\ ~InBacklog(backlog', CheckedMsg(g), CheckedSrc(g))]_vars

\* a message of an unknown code and of a round ahead has been rejected
C6_Witness ==
    /\ last.op = "handleMsg"
    /\ last.err = errInvalidMessage
    /\ last.handler = "none"

\* -------------------------------------------------------------------------
\* C7: every message with a valid signer and a known code is dispatched to
\* exactly one handler, the one of its code, and handleCheckedMsg returns
\* that handler's result.
HandlerOfCode ==
    {<<MsgTypeNewView, "handleNewView">>, <<MsgTypePrepare, "handlePrepare">>,
     <<MsgTypePrepareVote, "handlePrepareVote">>, <<MsgTypePreCommit, "handlePreCommit">>,
     <<MsgTypePreCommitVote, "handlePreCommitVote">>, <<MsgTypeCommit, "handleCommit">>,
     <<MsgTypeCommitVote, "handleCommitVote">>}

C7_DispatchByCode ==
    [][\A g \in LoopIds :
         (Returns(g) /\ Checked(g) /\ CheckedMsg(g).Code \in KnownCodes)
         => /\ <<CheckedMsg(g).Code, last'.handler>> \in HandlerOfCode
            /\ last'.err = last'.inner]_vars

\* a PreCommitVote has been dispatched to handlePreCommitVote and accepted
C7_Witness ==
    /\ last.handler = "handlePreCommitVote"
    /\ last.err = NoError
    /\ <<MsgTypePreCommitVote, "v1">> \in votes

\* -------------------------------------------------------------------------
\* C8: the dispatch loop handles one event to completion before it receives
\* the next, so no two handler invocations on the same core ever interleave.
C8_NoInterleaving == Cardinality({g \in LoopIds : InHandler(g)}) <= 1

\* -------------------------------------------------------------------------
\* C9: no handler runs concurrently with teardown: while Stop stops the timer
\* and unsubscribes the three sources no handler invocation is executing, and
\* a handler in flight when Stop is called has completed before Stop returns.
C9_NoHandlerDuringStop ==
    [][/\ InStop => \A g \in LoopIds : ~InHandler(g)
       /\ (InStop /\ callerPc' = Idle) => \A g \in LoopIds : ~InHandler(g)']_vars

\* -------------------------------------------------------------------------
\* C10: after Stop has cancelled the timer and unsubscribed from all three
\* sources, the dispatch loop starts no further handler invocation.
C10_NoHandlerAfterStop ==
    [][Stopped => \A g \in LoopIds : ~Begins(g)]_vars

\* Stop has returned, the sources are closed and a dispatch loop has found
\* its channel closed and returned
C10_Witness ==
    /\ Stopped
    /\ \A k \in Kinds : ~subOpen[k]
    /\ \E g \in LoopIds : loops[g].pc = "exited"

\* -------------------------------------------------------------------------
\* C11: a validation failure never stalls the core: after a handler returns
\* an error for a request, a message or a backlog event, the dispatch loop
\* stays running, and an event delivered to it is eventually handled.
C11_ErrorNeverStalls ==
    /\ [][\A g \in LoopIds :
            (/\ Ends(g)
             /\ loops[g].ev.type \in {"RequestEvent", "MessageEvent", "backlogEvent"}
             /\ last'.err # NoError)
            => loops'[g].pc = "top"]_vars
    /\ (callerPc = Running /\ subQ["events"] # <<>>)
          ~> (\E g \in LoopIds : InHandler(g) /\ KindOf(loops[g].ev.type) = "events")

\* a replayed message has been rejected, the loop is running and the next
\* event waits on its channel
C11_Witness ==
    /\ last.op = "handleCheckedMsg"
    /\ last.err = errNotFromProposer
    /\ \E g \in LoopIds : loops[g].pc = "top"
    /\ subQ["events"] # <<>>

\* -------------------------------------------------------------------------
\* C12: events delivered on one source channel are handled in the order they
\* were delivered to it: the event a handler invocation begins with is the one
\* delivered first among those waiting on its source, the events behind it keep
\* their order, and a channel only grows at its tail.
IsPrefix(s, t) == Len(s) <= Len(t) /\ SubSeq(t, 1, Len(s)) = s

C14_QuorumThreshold ==
    /\ \E f \in 0..Cardinality(Validators) :
          Cardinality(Validators) = 3 * f + 1 /\ Quorum = 2 * f + 1
    /\ \A code \in VoteCodes :
          QC(code) \in votes <=> Cardinality(Signers(votes, code)) >= Quorum

\* the third PrepareVote has been recorded and the QC produced by it
C14_Witness ==
    /\ last.handler = "handlePrepareVote"
    /\ last.err = NoError
    /\ Cardinality(Signers(votes, MsgTypePrepareVote)) = Quorum
    /\ QC(MsgTypePrepareVote) \in votes
    /\ QC(MsgTypePreCommitVote) \notin votes

\* -------------------------------------------------------------------------
\* C15: vote uniqueness: for every vote kind of the round and every signer at
\* most one vote is counted; a second vote of an already-counted signer, the
\* same vote again or a conflicting one, is rejected (a repeated vote with the
\* add-vote error of its kind) and leaves the tally, the QC state and the
\* phase unchanged.
AddVoteError ==
    {<<MsgTypePrepareVote, errAddPrepareVote>>, <<MsgTypePreCommitVote, errAddPreCommitVote>>,
     <<MsgTypeCommitVote, errAddCommitVote>>}

C15_VoteUniqueness ==
    [][/\ \A code \in VoteCodes : VoteCount(votes', code) = Cardinality(Signers(votes', code))
       /\ \A g \in LoopIds :
            (/\ Returns(g)
             /\ Checked(g)
             /\ CheckedMsg(g).Code \in VoteCodes
             /\ CheckedMsg(g).Round = currentRound
             /\ <<CheckedMsg(g).Code, CheckedSrc(g)>> \in votes)
            => /\ last'.err # NoError
               /\ CheckedMsg(g).chk => <<CheckedMsg(g).Code, last'.err>> \in AddVoteError
               /\ votes' = votes
               /\ currentPhase' = currentPhase]_vars

\* after the QC of the PrepareVotes, a vote of a signer already counted has
\* been rejected
C15_Witness ==
    /\ last.handler = "handlePrepareVote"
    /\ last.err = errAddPrepareVote
    /\ QC(MsgTypePrepareVote) \in votes
    /\ Cardinality(Signers(votes, MsgTypePrepareVote)) = Quorum

\* -------------------------------------------------------------------------
\* C16: a timeout advances the round only for the round whose timer expired:
\* the timeoutEvent a handleTimeoutMsg call handles was raised by the timer of
\* the round the core is in, never by the timer of an earlier round.
C16_TimeoutOfCurrentRound ==
    [][\A g \in LoopIds :
         (Returns(g) /\ loops[g].ev.type = "timeoutEvent")
         => loops[g].ev.tround = currentRound]_vars

\* -------------------------------------------------------------------------
\* C17: no timeout is lost at startup: while Stop is not called, the
\* timeoutEvent the timer posts when it expires is delivered to the timeout
\* channel of the dispatch loop, and a delivered timeoutEvent is eventually
\* handled by handleTimeoutMsg.
C17_StartupTimeoutHandled ==
    /\ [][(timer # NoTimer /\ timer' = NoTimer /\ callerPc' = callerPc)
          => subQ'["timeoutSub"] = Append(subQ["timeoutSub"], timeoutEvent(timer))]_vars
    /\ \A r \in 0..MaxMsgRound :
          (subQ["timeoutSub"] # <<>> /\ Head(subQ["timeoutSub"]) = timeoutEvent(r))
            ~> (\E g \in LoopIds : InHandler(g) /\ loops[g].ev = timeoutEvent(r))

\* -------------------------------------------------------------------------
\* C18: a deferred message is not lost by an early replay: when a
\* backlogEvent is handled while its message's round is ahead of currentRound,
\* the handler classifies it as a future message again and the message is in
\* the Backlog afterwards, with the signer the event carried.
C18_EarlyReplayDeferredAgain ==
    [][\A g \in LoopIds :
         (/\ Returns(g)
          /\ loops[g].ev.type = "backlogEvent"
          /\ loops[g].ev.msg.Round > currentRound)
         => /\ last'.inner = errFutureMessage
            /\ InBacklog(backlog', loops[g].ev.msg, loops[g].ev.src)
            /\ currentRound' = currentRound
            /\ currentPhase' = currentPhase
            /\ votes' = votes]_vars

\* a replayed message of round 1 has been handled in round 0 and is deferred again
C18_Witness ==
    /\ last.op = "handleCheckedMsg"
    /\ last.inner = errFutureMessage
    /\ currentRound = 0
    /\ Len(backlog) > 0
    /\ backlog[Len(backlog)].msg.Round = 1
    /\ backlog[Len(backlog)].src = "v1"

\* -------------------------------------------------------------------------
\* C19: the dispatch loop terminates only through a closed subscription: a
\* loop exits only in a step of its select in which one of the three channels
\* is closed, and once the Stop that follows the Start that spawned it has
\* unsubscribed the three sources and returned, the loop eventually exits.
C19_ExitsWhenUnsubscribed ==
    /\ [][\A g \in LoopIds :
            (loops[g].pc # "exited" /\ loops'[g].pc = "exited")
            => /\ loops[g].pc = "select"
               /\ \E k \in Kinds : ChanClosed(loops[g], k)]_vars
    /\ \A g \in LoopIds : (gen = g /\ callerPc = Idle) ~> (loops[g].pc = "exited")

\* -------------------------------------------------------------------------
\* C20: a payload that fails decoding or signature validation is rejected by
\* handleMsg with the decoding error, whoever its sender is: no phase handler
\* is invoked, nothing is added to the Backlog, round and phase are unchanged.
C20_DecodeFailure ==
    [][\A g \in LoopIds :
         (/\ Returns(g)
          /\ loops[g].ev.type = "MessageEvent"
          /\ ~loops[g].ev.payload.dec)
         => /\ last'.err = errDecodePayload
            /\ last'.handler = "none"
            /\ backlog' = backlog
            /\ currentRound' = currentRound
            /\ currentPhase' = currentPhase
            /\ votes' = votes]_vars

\* an undecodable payload has been rejected while a message is deferred
C20_Witness ==
    /\ last.op = "handleMsg"
    /\ last.err = errDecodePayload
    /\ last.handler = "none"
    /\ Len(backlog) > 0
====
